---- MODULE Spec2Model ----
(***************************************************************************)
(* Model of app.py: the Flask endpoint GET /fetch-filtered-page            *)
(* (get_readable_page), the extraction pipeline fetch_webpage_python and   *)
(* the token estimator estimateTokenCount.                                 *)
(*                                                                         *)
(* Python strings are sequences of one-character strings.  The parsed HTML *)
(* document (the BeautifulSoup tree) is a forest of nodes.  The outcome of *)
(* the outbound GET is chosen by the environment.                          *)
(***************************************************************************)
EXTENDS Integers, Sequences, FiniteSets

VARIABLES pc, reqUrl, url, upstream, result, resp, gets, estimates

vars == <<pc, reqUrl, url, upstream, result, resp, gets, estimates>>

(***************************************************************************)
(* Bounds of the model.                                                    *)
(***************************************************************************)
\* number of nodes (elements and text nodes) of a fetched document
MaxSize == 3
\* number of chunks a text handed to the estimator is concatenated from
MaxChunks == 3

(***************************************************************************)
(* Let(x, F) is F(x) with x evaluated once: every intermediate value of    *)
(* the Python code is computed once and then named, as an assignment does. *)
(***************************************************************************)
Let(x, F(_)) == CHOOSE y \in { F(v) : v \in {x} } : TRUE

(***************************************************************************)
(* Python str operations.                                                  *)
(***************************************************************************)
Lowercase == <<"a","b","c","d","e","f","g","h","i","j","k","l","m",
               "n","o","p","q","r","s","t","u","v","w","x","y","z">>
Uppercase == <<"A","B","C","D","E","F","G","H","I","J","K","L","M",
               "N","O","P","Q","R","S","T","U","V","W","X","Y","Z">>
Digits == {"0","1","2","3","4","5","6","7","8","9"}

Range(s) == { s[i] : i \in 1..Len(s) }

UpperSet == Range(Uppercase)
Letters == Range(Lowercase) \cup Range(Uppercase)

\* c.isalpha() for an ASCII character
IsAlpha(c) == c \in Letters

\* c.lower()
LowerChar(c) ==
    IF c \in UpperSet
    THEN Lowercase[CHOOSE i \in 1..Len(Uppercase) : Uppercase[i] = c]
    ELSE c

\* s.lower()
Lower(s) == [i \in 1..Len(s) |-> LowerChar(s[i])]

\* c.isspace()
IsSpace(c) == c \in {" ", "\t", "\n"}

\* s[i:] with a 0-based Python index i
From(s, i) == SubSeq(s, i + 1, Len(s))

\* s[:i] with a 0-based Python index i
Upto(s, i) == SubSeq(s, 1, IF i < Len(s) THEN i ELSE Len(s))

\* s.startswith(p)
StartsWith(s, p) == Len(p) <= Len(s) /\ SubSeq(s, 1, Len(p)) = p

\* p in s
Contains(s, p) ==
    \E i \in 0..(Len(s) - Len(p)) : SubSeq(s, i + 1, i + Len(p)) = p

\* the least element of a non-empty set of integers
Min(S) == CHOOSE i \in S : \A j \in S : i <= j
Max(S) == CHOOSE i \in S : \A j \in S : j <= i

\* s.find(c, start): 0-based index of the first c at or after start, -1 if none
Find(s, c, start) ==
    Let({ i \in start..(Len(s) - 1) : s[i + 1] = c },
        LAMBDA hits : IF hits = {} THEN -1 ELSE Min(hits))

\* s.strip()
Strip(s) ==
    Let({ i \in 1..Len(s) : ~IsSpace(s[i]) },
        LAMBDA keep : IF keep = {} THEN <<>>
                      ELSE SubSeq(s, Min(keep), Max(keep)))

\* len(s.split()): the number of maximal runs of non-whitespace characters
WordCount(s) ==
    Cardinality({ i \in 1..Len(s) :
                    /\ ~IsSpace(s[i])
                    /\ (i = 1 \/ IsSpace(s[i - 1])) })

\* s.split(sep) for a one-character separator
RECURSIVE SplitOn(_, _)
SplitOn(s0, sep) ==
    Let(s0, LAMBDA s :
    Let(Find(s, sep, 0), LAMBDA i :
        IF i = -1 THEN <<s>>
        ELSE <<Upto(s, i)>> \o SplitOn(From(s, i + 1), sep)))

\* sep.join(parts)
RECURSIVE Join(_, _)
Join(parts0, sep) ==
    Let(parts0, LAMBDA parts :
        IF parts = <<>> THEN <<>>
        ELSE IF Len(parts) = 1 THEN parts[1]
        ELSE parts[1] \o sep \o Join(Tail(parts), sep))

(***************************************************************************)
(* urllib.parse as app.py uses it: urlparse (line 133) and urljoin (lines  *)
(* 52, 65, 87, 97).  The URL alphabet of the model has no ';', brackets,   *)
(* whitespace or control characters, so params and the stripping of such   *)
(* characters do not arise.                                                *)
(***************************************************************************)
HTTP == <<"h","t","t","p">>
HTTPS == <<"h","t","t","p","s">>
SchemeChars == Letters \cup Digits \cup {"+", "-", "."}
\* urllib.parse.uses_relative and uses_netloc, as far as the model's URLs go
UsesRelative == {<<>>, HTTP, HTTPS}
UsesNetloc == {<<>>, HTTP, HTTPS}

\* the smallest non-negative of the find() results of '/', '?', '#', else
\* the length
MinDelim(s, start) ==
    Let({ Find(s, c, start) : c \in {"/", "?", "#"} } \ {-1},
        LAMBDA ds : IF ds = {} THEN Len(s) ELSE Min(ds))

Parts(scheme, netloc, path, query, fragment) ==
    [scheme |-> scheme, netloc |-> netloc, path |-> path,
     query |-> query, fragment |-> fragment]

\* the end of urlsplit: query and fragment are cut off the rest
SplitTail(scheme, netloc, r2) ==
    Let(Find(r2, "#", 0), LAMBDA f :
    Let(IF f = -1 THEN r2 ELSE Upto(r2, f), LAMBDA r3 :
    Let(Find(r3, "?", 0), LAMBDA q :
        Parts(scheme, netloc,
              IF q = -1 THEN r3 ELSE Upto(r3, q),
              IF q = -1 THEN <<>> ELSE From(r3, q + 1),
              IF f = -1 THEN <<>> ELSE From(r2, f + 1)))))

\* urlsplit(u, scheme=default): [scheme, netloc, path, query, fragment]
urlsplit(u0, default) ==
    Let(u0, LAMBDA u :
    Let(Find(u, ":", 0), LAMBDA i :
    Let(i > 0 /\ IsAlpha(u[1]) /\ \A k \in 1..i : u[k] \in SchemeChars,
        LAMBDA hasScheme :
    Let(IF hasScheme THEN Lower(Upto(u, i)) ELSE default, LAMBDA scheme :
    Let(IF hasScheme THEN From(u, i + 1) ELSE u, LAMBDA r1 :
        IF Upto(r1, 2) = <<"/", "/">>
        THEN Let(MinDelim(r1, 2), LAMBDA delim :
                 SplitTail(scheme, SubSeq(r1, 3, delim), From(r1, delim)))
        ELSE SplitTail(scheme, <<>>, r1))))))

\* urlparse(u): the split of line 133
urlparse(u) == urlsplit(u, <<>>)

\* urlunsplit((scheme, netloc, path, query, fragment))
urlunsplit(p0) ==
    Let(p0, LAMBDA p :
    Let(\/ p.netloc # <<>>
        \/ (p.scheme # <<>> /\ p.scheme \in UsesNetloc
            /\ Upto(p.path, 2) # <<"/", "/">>), LAMBDA withNetloc :
    Let(IF withNetloc
        THEN <<"/", "/">> \o p.netloc
             \o (IF p.path # <<>> /\ p.path[1] # "/" THEN <<"/">> ELSE <<>>)
             \o p.path
        ELSE p.path, LAMBDA u1 :
        (IF p.scheme # <<>> THEN p.scheme \o <<":">> ELSE <<>>)
        \o u1
        \o (IF p.query # <<>> THEN <<"?">> \o p.query ELSE <<>>)
        \o (IF p.fragment # <<>> THEN <<"#">> \o p.fragment ELSE <<>>))))

\* the removal of '.' and '..' segments in urljoin
RECURSIVE ResolveSegments(_, _)
ResolveSegments(segments0, acc0) ==
    Let(segments0, LAMBDA segments :
    Let(acc0, LAMBDA acc :
        IF segments = <<>> THEN acc
        ELSE IF segments[1] = <<".", ".">>
        THEN ResolveSegments(Tail(segments),
                             IF acc = <<>> THEN acc
                             ELSE SubSeq(acc, 1, Len(acc) - 1))
        ELSE IF segments[1] = <<".">>
        THEN ResolveSegments(Tail(segments), acc)
        ELSE ResolveSegments(Tail(segments), Append(acc, segments[1]))))

\* segments[1:-1] = filter(None, segments[1:-1])
DropEmptyInner(segments0) ==
    Let(segments0, LAMBDA segments :
        IF Len(segments) <= 2 THEN segments
        ELSE <<segments[1]>>
             \o SelectSeq(SubSeq(segments, 2, Len(segments) - 1),
                          LAMBDA x : x # <<>>)
             \o <<segments[Len(segments)]>>)

\* base_parts of urljoin: the base path's segments without the last one
BaseParts(bpath) ==
    Let(SplitOn(bpath, "/"), LAMBDA parts :
        IF parts[Len(parts)] # <<>> THEN SubSeq(parts, 1, Len(parts) - 1)
        ELSE parts)

\* the path of urljoin's result, from the segments of base and reference
ResolvedPath(segments0) ==
    Let(segments0, LAMBDA segments :
    Let(ResolveSegments(segments, <<>>), LAMBDA resolved0 :
    Let(segments[Len(segments)], LAMBDA last :
    Let(Join(IF last = <<".">> \/ last = <<".", ".">>
             THEN Append(resolved0, <<>>) ELSE resolved0, <<"/">>),
        LAMBDA joined : IF joined = <<>> THEN <<"/">> ELSE joined))))

\* urljoin(base, u)
urljoin(base0, u0) ==
    Let(base0, LAMBDA base :
    Let(u0, LAMBDA u :
        IF base = <<>> THEN u
        ELSE IF u = <<>> THEN base
        ELSE
        Let(urlsplit(base, <<>>), LAMBDA b :
        Let(urlsplit(u, b.scheme), LAMBDA r :
            IF r.scheme # b.scheme \/ r.scheme \notin UsesRelative THEN u
            ELSE IF r.scheme \in UsesNetloc /\ r.netloc # <<>> THEN urlunsplit(r)
            ELSE
            Let(IF r.scheme \in UsesNetloc THEN b.netloc ELSE r.netloc,
                LAMBDA netloc :
                IF r.path = <<>>
                THEN urlunsplit(Parts(r.scheme, netloc, b.path,
                                      IF r.query = <<>> THEN b.query ELSE r.query,
                                      r.fragment))
                ELSE urlunsplit(Parts(r.scheme, netloc,
                         ResolvedPath(IF r.path[1] = "/" THEN SplitOn(r.path, "/")
                                      ELSE DropEmptyInner(BaseParts(b.path)
                                                          \o SplitOn(r.path, "/"))),
                         r.query, r.fragment)))))))

(***************************************************************************)
(* The parsed document: a forest of nodes.  kind is "text" (a string of    *)
(* the tree), "a", "img" or "el" (any other element).  has tells whether   *)
(* an anchor carries href, an image src; attr is that attribute's value.   *)
(* A missing alt and an empty alt are both the empty string, as            *)
(* img.get('alt', '') makes them.                                          *)
(***************************************************************************)
TextNode(s) ==
    [kind |-> "text", text |-> s, has |-> FALSE, attr |-> <<>>, alt |-> <<>>,
     kids |-> <<>>]
Anchor(has, href, kids) ==
    [kind |-> "a", text |-> <<>>, has |-> has, attr |-> href, alt |-> <<>>,
     kids |-> kids]
Img(has, src, alt) ==
    [kind |-> "img", text |-> <<>>, has |-> has, attr |-> src, alt |-> alt,
     kids |-> <<>>]
Elem(kids) ==
    [kind |-> "el", text |-> <<>>, has |-> FALSE, attr |-> <<>>, alt |-> <<>>,
     kids |-> kids]

\* the strings of a forest, in document order
RECURSIVE Strings(_)
Strings(f0) ==
    Let(f0, LAMBDA f :
        IF f = <<>> THEN <<>>
        ELSE (IF f[1].kind = "text" THEN <<f[1].text>> ELSE Strings(f[1].kids))
             \o Strings(Tail(f)))

\* get_text(separator=sep, strip=True): every string stripped, the empty ones
\* dropped, the rest joined with sep
get_text(f, sep) ==
    Let(Strings(f), LAMBDA strs :
        Join(SelectSeq([i \in 1..Len(strs) |-> Strip(strs[i])],
                       LAMBDA x : x # <<>>), sep))

\* lines 48-52: the href of the annotation
ResolveLinkHref(base, href) ==
    IF StartsWith(href, <<"/">>) THEN urljoin(base, href) ELSE href

\* lines 61-65: the src of the annotation
ResolveImageSrc(base, src) ==
    IF StartsWith(src, <<"/">>) THEN urljoin(base, src) ELSE src

\* lines 83-87: the href of the links list
CollectLinkHref(base, href) ==
    IF StartsWith(href, <<"/">>) THEN urljoin(base, href) ELSE href

\* a resolution that joins every value, not only those starting with '/'
CollectImageSrcAlwaysJoined(base, src) == urljoin(base, src)

\* lines 93-97: the src of the images list
CollectImageSrc(base, src) ==
    IF StartsWith(src, <<"/">>) THEN urljoin(base, src) ELSE src

\* lines 54-58: the string an anchor is replaced with
LinkAnnotation(n, base) ==
    Let(ResolveLinkHref(base, n.attr), LAMBDA href :
    Let(get_text(n.kids, <<>>), LAMBDA link_text :
        IF link_text # <<>>
        THEN link_text \o <<" ", "[">> \o href \o <<"]">>
        ELSE <<"[">> \o href \o <<"]">>))

ImagePrefix == <<"[","I","m","a","g","e">>

\* an annotation that forgets to trim the alt text
ImageAnnotationUntrimmed(n, base) ==
    Let(ResolveImageSrc(base, n.attr), LAMBDA src :
        IF n.alt # <<>>
        THEN ImagePrefix \o <<":", " ">> \o n.alt \o <<"]", " ", "[">> \o src
             \o <<"]">>
        ELSE ImagePrefix \o <<"]", " ", "[">> \o src \o <<"]">>)

\* lines 67-71: the string an image is replaced with
ImageAnnotation(n, base) ==
    Let(ResolveImageSrc(base, n.attr), LAMBDA src :
    Let(Strip(n.alt), LAMBDA alt_text :
        IF alt_text # <<>>
        THEN ImagePrefix \o <<":", " ">> \o alt_text \o <<"]", " ", "[">> \o src
             \o <<"]">>
        ELSE ImagePrefix \o <<"]", " ", "[">> \o src \o <<"]">>))

\* lines 47-58: every anchor with an href, in document order, is replaced by
\* its annotation.  find_all lists the anchors before the first replacement,
\* so an anchor inside an anchor with an href is replaced inside a subtree
\* that has already left the document: it leaves no trace in the tree.
RECURSIVE AnnotateLinks(_, _)
AnnotateLinks(f0, base) ==
    Let(f0, LAMBDA f :
        IF f = <<>> THEN <<>>
        ELSE Let(f[1], LAMBDA n :
                 <<IF n.kind = "a" /\ n.has THEN TextNode(LinkAnnotation(n, base))
                   ELSE [n EXCEPT !.kids = AnnotateLinks(n.kids, base)]>>)
             \o AnnotateLinks(Tail(f), base))

\* lines 60-71: every image with a src still in the tree is replaced
RECURSIVE AnnotateImages(_, _)
AnnotateImages(f0, base) ==
    Let(f0, LAMBDA f :
        IF f = <<>> THEN <<>>
        ELSE Let(f[1], LAMBDA n :
                 <<IF n.kind = "img" /\ n.has THEN TextNode(ImageAnnotation(n, base))
                   ELSE [n EXCEPT !.kids = AnnotateImages(n.kids, base)]>>)
             \o AnnotateImages(Tail(f), base))

\* a collection from the tree the annotation has already rewritten, where
\* the inside of a replaced anchor is gone
RECURSIVE CollectLinksFromSoup(_, _)
CollectLinksFromSoup(f0, base) ==
    Let(f0, LAMBDA f :
        IF f = <<>> THEN <<>>
        ELSE Let(f[1], LAMBDA n :
                 IF n.kind = "a" /\ n.has THEN <<CollectLinkHref(base, n.attr)>>
                 ELSE CollectLinksFromSoup(n.kids, base))
             \o CollectLinksFromSoup(Tail(f), base))

\* lines 81-88: the hrefs of the original document, in document order
RECURSIVE CollectLinks(_, _)
CollectLinks(f0, base) ==
    Let(f0, LAMBDA f :
        IF f = <<>> THEN <<>>
        ELSE Let(f[1], LAMBDA n :
                 (IF n.kind = "a" /\ n.has THEN <<CollectLinkHref(base, n.attr)>>
                  ELSE <<>>)
                 \o CollectLinks(n.kids, base))
             \o CollectLinks(Tail(f), base))

\* lines 90-98: the srcs of the original document, in document order
RECURSIVE CollectImages(_, _)
CollectImages(f0, base) ==
    Let(f0, LAMBDA f :
        IF f = <<>> THEN <<>>
        ELSE Let(f[1], LAMBDA n :
                 (IF n.kind = "img" /\ n.has THEN <<CollectImageSrc(base, n.attr)>>
                  ELSE <<>>)
                 \o CollectImages(n.kids, base))
             \o CollectImages(Tail(f), base))

(***************************************************************************)
(* Results and responses.                                                  *)
(***************************************************************************)
None == [s |-> <<>>, some |-> FALSE]
Some(s) == [s |-> s, some |-> TRUE]

\* Python's `not x` for an optional string
Falsy(x) == ~x.some \/ x.s = <<>>

NoResult == [text |-> None, links |-> <<>>, images |-> <<>>]

CantFetchPage ==
    <<"C","a","n","'","t"," ","f","e","t","c","h"," ","p","a","g","e">>

ErrUrlRequired == "URL parameter is required"
ErrInvalidUrl ==
    "Invalid URL format. Please provide a full URL (e.g., http://example.com)"
ErrGeneric == "Could not fetch or parse content from the URL"
\* what Flask answers when the view function raises
ErrUnhandled == "Internal Server Error"

NoResp ==
    [status |-> 0, json |-> FALSE, error |-> "", url_requested |-> <<>>,
     content_html |-> <<>>, length |-> 0]
ErrorResp(status, msg) ==
    [status |-> status, json |-> TRUE, error |-> msg, url_requested |-> <<>>,
     content_html |-> <<>>, length |-> 0]
\* the view function raised: Flask's own 500 page, not a JSON body
UnhandledResp ==
    [status |-> 500, json |-> FALSE, error |-> ErrUnhandled,
     url_requested |-> <<>>, content_html |-> <<>>, length |-> 0]

\* a pipeline without the check of line 76
ExtractPageUnchecked(base, doc) ==
    IF doc = <<>> THEN NoResult
    ELSE [text |-> Some(get_text(AnnotateImages(AnnotateLinks(doc, base), base),
                                 <<" ">>)),
          links |-> CollectLinks(doc, base),
          images |-> CollectImages(doc, base)]

\* lines 27-100: the pipeline on the body of an HTML response
ExtractPage(base, doc) ==
    IF doc = <<>> THEN NoResult
    ELSE Let(AnnotateImages(AnnotateLinks(doc, base), base), LAMBDA soup :
         Let(get_text(soup, <<" ">>), LAMBDA article_text_content :
             IF Strip(article_text_content) = <<>> THEN NoResult
             ELSE [text |-> Some(article_text_content),
                   links |-> CollectLinks(doc, base),
                   images |-> CollectImages(doc, base)]))

\* an estimator that rounds a tie up
estimateTokenCountHalfUp(text) ==
    (3 * Len(text) + 16 * WordCount(text) + 12) \div 24

\* lines 114-123: round() of a float rounds half to even; the value is
\* (3L + 16W) / 24 and a tie has W a multiple of 3, where the float is exact
estimateTokenCount(text) ==
    Let(3 * Len(text) + 16 * WordCount(text), LAMBDA n :
        IF n % 24 < 12 THEN n \div 24
        ELSE IF n % 24 > 12 THEN n \div 24 + 1
        ELSE IF (n \div 24) % 2 = 0 THEN n \div 24 ELSE n \div 24 + 1)

(***************************************************************************)
(* Inputs: the url query parameter, the outcome of the outbound GET, the   *)
(* Content-Type header and the document of the response.                   *)
(***************************************************************************)
HostOnlyUrl == <<"e", ".", "c">>
HttpUrl == <<"h","t","t","p",":","/","/","e",".","c">>
HttpsUrl == <<"h","t","t","p","s",":","/","/","e",".","c","/","p","/","q">>

\* request.args.get('url'): absent, empty, or a string
RequestUrls ==
    { None, Some(<<>>), Some(HostOnlyUrl), Some(HttpUrl), Some(HttpsUrl),
      Some(<<"/", "/", "e", ".", "c">>),
      Some(<<"h","t","t","p",":">>),
      Some(<<"/", "p">>),
      Some(<<"e", ".", "c", "/", "p">>),
      Some(<<"e", ".", "c", ":", "8", "0">>),
      Some(<<"f","t","p",":","/","/","e",".","c">>) }

TextHtml == <<"t","e","x","t","/","h","t","m","l">>

\* response.headers.get('Content-Type'): None is a response without the header
ContentTypes ==
    { None,
      Some(TextHtml),
      Some(<<"T","e","x","t","/","H","T","M","L",";"," ","c","h","a","r","s","e","t",
             "=","u","t","f","-","8">>),
      Some(<<"a","p","p","l","i","c","a","t","i","o","n","/","j","s","o","n">>),
      Some(<<"t","e","x","t","/","p","l","a","i","n">>) }

\* the values href and src take: root-relative, with a dot segment,
\* protocol-relative, fragment-only, query-only, path-relative, absolute, empty
AttrForms ==
    { <<"/", "x">>,
      <<"/", ".", "/", "x">>,
      <<"/", "/", "h", "/", "x">>,
      <<"#", "f">>,
      <<"?", "q">>,
      <<"x">>,
      <<"h","t","t","p",":","/","/","h","/","x">>,
      <<>> }

Alts == { <<>>, <<" ">>, <<" ", "c", " ">> }

Leaves ==
    { TextNode(<<" ">>),
      TextNode(<<" ", "u", " ">>),
      Img(TRUE, <<"/", "y">>, <<"c">>) }

ContainerKinds == { "a_root", "a_fragment", "el" }

Container(c, kids) ==
    IF c = "a_root" THEN Anchor(TRUE, <<"/", "x">>, kids)
    ELSE IF c = "a_fragment" THEN Anchor(TRUE, <<"#", "f">>, kids)
    ELSE Elem(kids)

\* the forests of exactly n nodes, and the nodes whose subtree has k nodes
RECURSIVE ForestsOfSize(_), NodesOfSize(_)
NodesOfSize(k) ==
    (IF k = 1 THEN Leaves ELSE {})
    \cup { Container(c, kids) : c \in ContainerKinds, kids \in ForestsOfSize(k - 1) }
ForestsOfSize(n) ==
    IF n = 0 THEN { <<>> }
    ELSE UNION { { <<nd>> \o rest : nd \in NodesOfSize(k),
                                    rest \in ForestsOfSize(n - k) } : k \in 1..n }

\* documents of every shape of at most MaxSize nodes; the empty forest is the
\* empty response body
StructureDocs == UNION { ForestsOfSize(n) : n \in 0..MaxSize }

\* documents that run every form of href and src through the pipeline
UrlFormDocs ==
    { <<Anchor(TRUE, h, <<TextNode(<<"t">>)>>)>> : h \in AttrForms }
    \cup { <<Img(TRUE, h, a)>> : h \in AttrForms, a \in Alts }
    \cup { <<Img(FALSE, <<>>, a)>> : a \in Alts }
    \cup { <<Anchor(FALSE, <<>>, <<n>>)>> :
             n \in Leaves \cup { Anchor(TRUE, <<"/", "x">>, <<lf>>) : lf \in Leaves } }
    \cup { <<Anchor(TRUE, h1, <<>>), Anchor(TRUE, h2, <<TextNode(<<"t">>)>>)>> :
             h1 \in AttrForms, h2 \in AttrForms }

Docs == StructureDocs \cup UrlFormDocs

NoUpstream == [kind |-> "none", status |-> 0, doc |-> <<>>, ctype |-> None]

(***************************************************************************)
(* get_readable_page, lines 126-150.                                       *)
(***************************************************************************)
\* a test for the absent parameter only
MissingOnlyAbsent(u) == ~u.some

\* line 130: `not url`
Missing(u) == Falsy(u)

\* lines 133-138: whether the URL is accepted, and the URL handed to the fetch
NormalizeUrl(u) ==
    Let(urlparse(u), LAMBDA parsed_url :
        IF parsed_url.scheme = <<>> \/ parsed_url.netloc = <<>>
        THEN IF parsed_url.scheme = <<>> /\ parsed_url.netloc # <<>>
             THEN [url |-> HTTP \o <<":", "/", "/">> \o u, ok |-> TRUE]
             ELSE [url |-> u, ok |-> FALSE]
        ELSE [url |-> u, ok |-> TRUE])

\* line 19: requests.get can only succeed on an http(s) URL with a host;
\* anything else raises InvalidSchema or InvalidURL, both RequestException
CanFetch(u) ==
    Let(urlparse(u), LAMBDA p : p.scheme \in {HTTP, HTTPS} /\ p.netloc # <<>>)

\* lines 22-23: 'text/html' in content_type.lower()
IsHtml(ct) == Contains(Lower(IF ct.some THEN ct.s ELSE <<>>), TextHtml)

\* lines 143-150: the response built from what fetch_webpage_python returned
ResponseFor(u, r) ==
    IF Falsy(r.text) THEN ErrorResp(500, ErrGeneric)
    ELSE [status |-> 200, json |-> TRUE, error |-> "", url_requested |-> u,
          content_html |-> r.text.s, length |-> estimateTokenCount(r.text.s)]

Init ==
    /\ pc = "idle"
    /\ reqUrl = None
    /\ url = <<>>
    /\ upstream = NoUpstream
    /\ result = NoResult
    /\ resp = NoResp
    /\ gets = 0
    /\ estimates = 0

\* a request arrives: line 128
Request(u) ==
    /\ pc = "idle"
    /\ pc' = "validate"
    /\ reqUrl' = u
    /\ UNCHANGED <<url, upstream, result, resp, gets, estimates>>

\* lines 130-131
RejectMissing ==
    /\ pc = "validate"
    /\ Missing(reqUrl)
    /\ resp' = ErrorResp(400, ErrUrlRequired)
    /\ pc' = "done"
    /\ UNCHANGED <<reqUrl, url, upstream, result, gets, estimates>>

\* lines 133-138, the else branch
RejectInvalid ==
    /\ pc = "validate"
    /\ ~Missing(reqUrl)
    /\ ~NormalizeUrl(reqUrl.s).ok
    /\ resp' = ErrorResp(400, ErrInvalidUrl)
    /\ pc' = "done"
    /\ UNCHANGED <<reqUrl, url, upstream, result, gets, estimates>>

\* lines 133-140: the URL is accepted, as it is or with http:// prepended
Accept ==
    /\ pc = "validate"
    /\ ~Missing(reqUrl)
    /\ NormalizeUrl(reqUrl.s).ok
    /\ url' = NormalizeUrl(reqUrl.s).url
    /\ pc' = "fetch"
    /\ UNCHANGED <<reqUrl, upstream, result, resp, gets, estimates>>

\* lines 19-20 and 102-105: the GET raises a RequestException (no connection,
\* a timeout, an unusable URL, or raise_for_status on a 4xx/5xx)
FetchFails(kind, status) ==
    /\ pc = "fetch"
    /\ kind = "http_status" => CanFetch(url)
    /\ kind = "invalid_url" <=> ~CanFetch(url)
    /\ gets' = gets + 1
    /\ upstream' = [kind |-> kind, status |-> status, doc |-> <<>>, ctype |-> None]
    /\ result' = [text |-> Some(CantFetchPage), links |-> <<>>, images |-> <<>>]
    /\ pc' = "returned"
    /\ UNCHANGED <<reqUrl, url, resp, estimates>>

\* lines 22-25 and 106-108: the ValueError is re-raised, leaves
\* fetch_webpage_python and get_readable_page, and Flask answers for the view
FetchNonHtml(ct, doc) ==
    /\ pc = "fetch"
    /\ CanFetch(url)
    /\ ~IsHtml(ct)
    /\ gets' = gets + 1
    /\ upstream' = [kind |-> "ok", status |-> 200, doc |-> doc, ctype |-> ct]
    /\ resp' = UnhandledResp
    /\ pc' = "done"
    /\ UNCHANGED <<reqUrl, url, result, estimates>>

\* lines 19-100: an HTML response is run through the pipeline
FetchHtml(ct, doc) ==
    /\ pc = "fetch"
    /\ CanFetch(url)
    /\ IsHtml(ct)
    /\ gets' = gets + 1
    /\ upstream' = [kind |-> "ok", status |-> 200, doc |-> doc, ctype |-> ct]
    /\ result' = ExtractPage(url, doc)
    /\ pc' = "returned"
    /\ UNCHANGED <<reqUrl, url, resp, estimates>>

\* lines 143-150
Respond ==
    /\ pc = "returned"
    /\ resp' = ResponseFor(url, result)
    /\ estimates' = IF Falsy(result.text) THEN estimates ELSE estimates + 1
    /\ pc' = "done"
    /\ UNCHANGED <<reqUrl, url, upstream, result, gets>>

\* the response is sent; the server waits for the next request
NextRequest ==
    /\ pc = "done"
    /\ pc' = "idle"
    /\ reqUrl' = None
    /\ url' = <<>>
    /\ upstream' = NoUpstream
    /\ result' = NoResult
    /\ resp' = NoResp
    /\ gets' = 0
    /\ estimates' = 0

Next ==
    \/ \E u \in RequestUrls : Request(u)
    \/ RejectMissing
    \/ RejectInvalid
    \/ Accept
    \/ \E kind \in {"transport", "invalid_url"} : FetchFails(kind, 0)
    \/ \E status \in {404, 503} : FetchFails("http_status", status)
    \/ \E ct \in ContentTypes, doc \in {<<>>, <<TextNode(<<"t">>)>>} : FetchNonHtml(ct, doc)
    \/ \E ct \in {Some(TextHtml)}, doc \in Docs : FetchHtml(ct, doc)
    \/ \E ct \in ContentTypes, doc \in {<<>>, <<TextNode(<<"t">>)>>} : FetchHtml(ct, doc)
    \/ Respond
    \/ NextRequest

Spec == Init /\ [][Next]_vars

(***************************************************************************)
(* estimateTokenCount as a pure function: the handler's last step on any   *)
(* text fetch_webpage_python could hand back.                              *)
(***************************************************************************)
Chunks ==
    { <<"a">>, <<" ">>, <<"\n">>, <<"a","a","a","a">>,
      <<"a","a","a","a","a","a","a"," ">> }

RECURSIVE ChunkTexts(_)
ChunkTexts(n) ==
    IF n = 0 THEN { <<>> }
    ELSE { c \o t : c \in Chunks, t \in ChunkTexts(n - 1) }

EstTexts == UNION { ChunkTexts(n) : n \in 0..MaxChunks }

InitEst ==
    /\ pc = "returned"
    /\ reqUrl = Some(HttpUrl)
    /\ url = HttpUrl
    /\ upstream = NoUpstream
    /\ \E t \in EstTexts :
         result = [text |-> Some(t), links |-> <<>>, images |-> <<>>]
    /\ resp = NoResp
    /\ gets = 1
    /\ estimates = 0

NextEst == Respond

SpecEst == InitEst /\ [][NextEst]_vars

(***************************************************************************)
(* Vocabulary of the properties.                                           *)
(***************************************************************************)
\* the elements of the given kind that carry their attribute, in document
\* order; covered tells whether the element lies inside an anchor with an href
RECURSIVE Occurrences(_, _, _)
Occurrences(f0, kind, covered) ==
    Let(f0, LAMBDA f :
        IF f = <<>> THEN <<>>
        ELSE Let(f[1], LAMBDA n :
                 (IF n.kind = kind /\ n.has
                  THEN <<[covered |-> covered, node |-> n]>> ELSE <<>>)
                 \o Occurrences(n.kids, kind,
                                covered \/ (n.kind = "a" /\ n.has)))
             \o Occurrences(Tail(f), kind, covered))

\* the GET was answered with an HTML page and fetch_webpage_python has just
\* returned
PageFetched ==
    /\ pc = "returned"
    /\ upstream.kind = "ok"
    /\ IsHtml(upstream.ctype)

IsAbsolute(u) ==
    Let(urlparse(u), LAMBDA p : p.scheme # <<>> /\ p.netloc # <<>>)

\* a host-only, domain-like string: labels of letters and digits joined by dots
HostOnly(u) ==
    /\ u # <<>>
    /\ \A i \in 1..Len(u) : u[i] \in Letters \cup Digits \cup {".", "-"}
    /\ \E i \in 1..Len(u) : u[i] = "."
    /\ IsAlpha(u[1])

Bracketed(u) == <<"[">> \o u \o <<"]">>

(***************************************************************************)
(* C1.  A request whose outbound GET fails (no connection, timeout, or a   *)
(* 4xx/5xx status) is answered with status 500 and the JSON body           *)
(* {"error": "Could not fetch or parse content from the URL"}, never 200.  *)
(* The code answers 200 with content_html "Can't fetch page".              *)
(***************************************************************************)
C1_FetchFailureAnswers500 ==
    (pc = "done" /\ upstream.kind \in {"transport", "http_status"})
        => resp = ErrorResp(500, ErrGeneric)

(***************************************************************************)
(* C2.  A request whose fetch succeeds with a Content-Type that does not   *)
(* contain text/html (any case; header missing included) is answered with  *)
(* a JSON body, status 500 and the generic error message: no error leaves  *)
(* the handler unmapped.  The code lets the ValueError leave the handler.  *)
(***************************************************************************)
C2_NonHtmlAnswersJson500 ==
    (pc = "done" /\ upstream.kind = "ok" /\ ~IsHtml(upstream.ctype))
        => resp = ErrorResp(500, ErrGeneric)

(***************************************************************************)
(* C3.  A host-only, domain-like input without a scheme (example.com) is   *)
(* accepted: it reaches the fetch as 'http://' + input and is not answered *)
(* with the 400 'Invalid URL format' response.  The code rejects it.       *)
(***************************************************************************)
C3_HostOnlyAccepted ==
    (pc \in {"fetch", "returned", "done"} /\ reqUrl.some /\ HostOnly(reqUrl.s))
        => /\ url = HTTP \o <<":", "/", "/">> \o reqUrl.s
           /\ resp.error # ErrInvalidUrl

(***************************************************************************)
(* C4.  After a successful run of fetch_webpage_python every element of    *)
(* links and of images is an absolute URL: scheme and host both present.   *)
(* The code passes every value not starting with '/' through unchanged.    *)
(***************************************************************************)
C4_ListsAbsolute ==
    (PageFetched /\ result.text.some)
        => /\ \A i \in 1..Len(result.links) : IsAbsolute(result.links[i])
           /\ \A i \in 1..Len(result.images) : IsAbsolute(result.images[i])

(***************************************************************************)
(* C5.  For every img element with a src the extracted text contains       *)
(* '[Image: {alt}] [{resolved src}]' when the trimmed alt is non-empty and *)
(* '[Image] [{resolved src}]' otherwise, and images contains the resolved  *)
(* src.  Original: wherever the img sits, inside an anchor included.       *)
(* Amended: for the text, the img must not lie inside an anchor that has   *)
(* an href (such an anchor is replaced, subtree included, before the       *)
(* images are looked for); images lists every img with a src.              *)
(***************************************************************************)
\* the src as the claim resolves it
C5_Resolved(src) ==
    IF StartsWith(src, <<"/">>) THEN urljoin(url, src) ELSE src

C5_Annotation(n) ==
    IF Strip(n.alt) # <<>>
    THEN <<"[","I","m","a","g","e",":"," ">> \o Strip(n.alt) \o <<"]"," ">>
         \o Bracketed(C5_Resolved(n.attr))
    ELSE <<"[","I","m","a","g","e","]"," ">> \o Bracketed(C5_Resolved(n.attr))

C5_ImageHolds(o) ==
    /\ result.text.some
    /\ Contains(result.text.s, C5_Annotation(o.node))
    /\ \E i \in 1..Len(result.images) : result.images[i] = C5_Resolved(o.node.attr)

C5_Original ==
    PageFetched =>
        Let(Occurrences(upstream.doc, "img", FALSE), LAMBDA imgs :
            \A i \in 1..Len(imgs) : C5_ImageHolds(imgs[i]))

C5_ImagesAnnotated ==
    PageFetched =>
        Let(Occurrences(upstream.doc, "img", FALSE), LAMBDA imgs :
            /\ \A i \in 1..Len(imgs) : ~imgs[i].covered => C5_ImageHolds(imgs[i])
            /\ (imgs # <<>> /\ result.text.some) =>
                  result.images = [i \in 1..Len(imgs) |-> C5_Resolved(imgs[i].node.attr)])

C5_Witness ==
    /\ PageFetched
    /\ result.text.some
    /\ upstream.doc = <<Elem(<<Img(TRUE, <<"/", "y">>, <<"c">>)>>)>>

(***************************************************************************)
(* C6.  For every anchor with an href the extracted text contains          *)
(* '{inner text} [{resolved href}]', or '[{resolved href}]' when the inner *)
(* text is empty, and links holds the resolved hrefs once per occurrence,  *)
(* in document order, duplicates kept.  Original: for every such anchor,   *)
(* one nested inside another anchor included.  Amended: for the text, the  *)
(* anchor must not lie inside another anchor that has an href (its         *)
(* annotation is written into a subtree that has left the document); the   *)
(* inner text is the anchor's strings, each trimmed, concatenated; links   *)
(* lists every anchor with an href, nested ones included.                  *)
(***************************************************************************)
C6_Resolved(href) ==
    IF StartsWith(href, <<"/">>) THEN urljoin(url, href) ELSE href

\* the anchor's strings, each trimmed, concatenated
RECURSIVE C6_Concat(_)
C6_Concat(strs0) ==
    Let(strs0, LAMBDA strs :
        IF strs = <<>> THEN <<>> ELSE Strip(strs[1]) \o C6_Concat(Tail(strs)))

C6_Annotation(n) ==
    Let(C6_Concat(Strings(n.kids)), LAMBDA inner :
        IF inner # <<>> THEN inner \o <<" ">> \o Bracketed(C6_Resolved(n.attr))
        ELSE Bracketed(C6_Resolved(n.attr)))

C6_TextHolds(o) ==
    /\ result.text.some
    /\ Contains(result.text.s, C6_Annotation(o.node))

C6_LinksHold(anchors) ==
    anchors # <<>> =>
        result.links = [i \in 1..Len(anchors) |-> C6_Resolved(anchors[i].node.attr)]

C7_MissingUrlRejected ==
    /\ (pc = "done" /\ (~reqUrl.some \/ reqUrl.s = <<>>))
          => resp = ErrorResp(400, ErrUrlRequired)
    /\ resp.status = 400
          => /\ resp.error \in {ErrUrlRequired, ErrInvalidUrl}
             /\ gets = 0
             /\ estimates = 0
             /\ upstream = NoUpstream

C7_Witness ==
    /\ pc = "done"
    /\ reqUrl = Some(<<>>)
    /\ resp.status = 400

(***************************************************************************)
(* C8.  For an HTML page whose extracted text is empty or whitespace-only  *)
(* (an empty body included) fetch_webpage_python returns no text and empty *)
(* links and images, and the answer is 500 with the generic error body; a  *)
(* 200 response never carries an empty content_html.                       *)
(***************************************************************************)
\* the text the pipeline extracts from the document
C8_Extracted ==
    get_text(AnnotateImages(AnnotateLinks(upstream.doc, url), url), <<" ">>)

C8_EmptyContentAnswers500 ==
    /\ (pc \in {"returned", "done"} /\ upstream.kind = "ok"
        /\ IsHtml(upstream.ctype) /\ Strip(C8_Extracted) = <<>>)
          => /\ result = NoResult
             /\ pc = "done" => resp = ErrorResp(500, ErrGeneric)
    /\ resp.status = 200 => Strip(resp.content_html) # <<>>

C8_Witness ==
    /\ pc = "done"
    /\ upstream.kind = "ok"
    /\ IsHtml(upstream.ctype)
    /\ upstream.doc = <<Elem(<<TextNode(<<" ">>)>>)>>
    /\ resp.status = 500

(***************************************************************************)
(* C9.  The length of every 200 response is the integer nearest to         *)
(* (3L + 16W) / 24, where L is the number of characters and W the number   *)
(* of whitespace-separated words of its content_html; a tie goes to the    *)
(* even integer.                                                           *)
(***************************************************************************)
C9_Scaled == 3 * Len(resp.content_html) + 16 * WordCount(resp.content_html)

C9_EstimateIsNearest ==
    (pc = "done" /\ resp.status = 200) =>
        /\ 24 * resp.length - C9_Scaled \in -12..12
        /\ 24 * resp.length - C9_Scaled \in {-12, 12} => resp.length % 2 = 0

\* a tie that rounding half up would settle the other way: 4.5 becomes 4
C9_Witness ==
    /\ pc = "done"
    /\ resp.status = 200
    /\ C9_Scaled % 24 = 12
    /\ 24 * resp.length < C9_Scaled

(***************************************************************************)
(* C10.  Which values the URL resolution rewrites.  Original: only a       *)
(* root-relative path (a single leading '/'); every other form, the        *)
(* protocol-relative '//host/path' included, passes unchanged into the     *)
(* annotation and the lists.  Amended: every value that starts with '/'    *)
(* is rewritten: a root-relative path gets the scheme and host of the      *)
(* request URL, a protocol-relative '//host/path' gets the scheme of the   *)
(* request URL in front; a value that does not start with '/' passes       *)
(* unchanged; the annotation and the list carry the same resolved URL.     *)
(***************************************************************************)
C10_RootRelative(v) == StartsWith(v, <<"/">>) /\ ~StartsWith(v, <<"/", "/">>)

\* r is v joined to the scheme and host of the request URL
C10_JoinedToBase(v, r) ==
    Let(urlparse(url), LAMBDA b :
    Let(urlparse(r), LAMBDA p :
        r # v /\ p.scheme = b.scheme /\ p.netloc = b.netloc))

C10_OriginalRule(v, r) ==
    IF C10_RootRelative(v) THEN C10_JoinedToBase(v, r) ELSE r = v

C10_AmendedRule(v, r) ==
    IF C10_RootRelative(v) THEN C10_JoinedToBase(v, r)
    ELSE IF StartsWith(v, <<"/", "/">>) THEN r = urlparse(url).scheme \o <<":">> \o v
    ELSE r = v

\* the lists name every element's resolved URL, and the text carries the same
\* URL in brackets for every element that is not inside an anchor with an href
C10_Holds(Rule(_, _)) ==
    (PageFetched /\ result.text.some) =>
        Let(Occurrences(upstream.doc, "a", FALSE), LAMBDA anchors :
        Let(Occurrences(upstream.doc, "img", FALSE), LAMBDA imgs :
            /\ Len(result.links) = Len(anchors)
            /\ Len(result.images) = Len(imgs)
            /\ \A i \in 1..Len(anchors) :
                  /\ Rule(anchors[i].node.attr, result.links[i])
                  /\ ~anchors[i].covered =>
                        Contains(result.text.s, Bracketed(result.links[i]))
            /\ \A i \in 1..Len(imgs) :
                  /\ Rule(imgs[i].node.attr, result.images[i])
                  /\ ~imgs[i].covered =>
                        Contains(result.text.s, Bracketed(result.images[i]))))

C10_Original == C10_Holds(C10_OriginalRule)

C10_Resolution == C10_Holds(C10_AmendedRule)

C10_Witness ==
    /\ PageFetched
    /\ result.text.some
    /\ upstream.doc = <<Img(TRUE, <<"/", "/", "h", "/", "x">>, <<>>)>>
    /\ result.images = <<HTTP \o <<":", "/", "/", "h", "/", "x">>>>

====
